---- MODULE Spec2Model ----
(***************************************************************************)
(* Model of the moveslice crate (src/src/lib.rs): the two methods of the   *)
(* Moveslice trait, moveslice (panicking) and try_moveslice (returning     *)
(* Result<(), String>), applied to a slice by a caller.                    *)
(*                                                                         *)
(* usize is modelled with UsizeBits bits.  Rust's integer overflow is      *)
(* build dependent: with overflow checks (debug profile) an overflowing    *)
(* + or - panics, without them (release profile) it wraps.  The variable   *)
(* overflow_checks picks the build.                                        *)
(***************************************************************************)
EXTENDS Integers, Sequences, FiniteSets, TLC

\* Width of the modelled usize and longest slice the caller builds.
UsizeBits == 4
MaxLen == 9

Modulus == 2 ^ UsizeBits
UsizeMax == Modulus - 1
Usize == 0 .. UsizeMax

VARIABLES
    slice,            \* the caller's buffer (self.as_mut())
    old,              \* the buffer as it was when the last call began
    orig,             \* the buffer as it was when the first call began
    bounds,           \* the `bounds` argument of the last call: <<start_bound, end_bound>>
    destination,      \* the `destination` argument of the last call
    called,           \* "none", "moveslice" or "try_moveslice"
    outcome,          \* "none", "Ok", "Err" or "Panic"
    msg,              \* the Err string or the panic message of the last call
    first,            \* what the first call was and how it ended
    calls,            \* number of calls made
    overflow_checks   \* TRUE: overflow panics, FALSE: overflow wraps

vars == <<slice, old, orig, bounds, destination, called, outcome, msg, first, calls,
          overflow_checks>>

----------------------------------------------------------------------------
(* std::ops::Bound<usize> *)

Included(x) == [kind |-> "Included", val |-> x]
Excluded(x) == [kind |-> "Excluded", val |-> x]
Unbounded == [kind |-> "Unbounded", val |-> 0]

Bound == {Included(x) : x \in Usize} \cup {Excluded(x) : x \in Usize} \cup {Unbounded}

----------------------------------------------------------------------------
(* usize arithmetic *)

\* The exact result does not fit in usize.
Overflows(x) == x < 0 \/ x > UsizeMax

\* The result a build without overflow checks keeps.
Wrap(x) == (x + Modulus) % Modulus

----------------------------------------------------------------------------
(* Messages.  A message is its text and the three numbers the            *)
(* "Direction goes beyond slice" text is formatted with.                 *)

Message(text) == [text |-> text, len |-> 0, destination |-> 0, end |-> 0]

NoMessage == Message("")
StartboundMessage == Message("A startbound is required.")
EndboundMessage == Message("An endbound, excluded or included, is required.")
BeyondText == "Direction goes beyond slice"
BeyondMessage(len, dest, end) ==
    [text |-> BeyondText, len |-> len, destination |-> dest, end |-> end]

\* Panics raised by the language and by std, not by a panic! of the crate.
AddOverflow == Message("attempt to add with overflow")
SubOverflow == Message("attempt to subtract with overflow")
SplitFault == Message("mid > len")
RotateLeftFault == Message("assertion failed: mid <= self.len()")
RotateRightFault == Message("assertion failed: k <= self.len()")

GenericFaults == {AddOverflow, SubOverflow, SplitFault, RotateLeftFault, RotateRightFault}

\* How a call ends: the outcome, the buffer it leaves and the message.
Ok(s) == [outcome |-> "Ok", slice |-> s, msg |-> NoMessage]
Err(s, m) == [outcome |-> "Err", slice |-> s, msg |-> m]
Panic(s, m) == [outcome |-> "Panic", slice |-> s, msg |-> m]

----------------------------------------------------------------------------
(* The slice primitives of std the crate calls. *)

\* s.split_at_mut(mid): the two views <<s[..mid], s[mid..]>>; panics when mid > len.
split_at_mut(s, mid) == <<SubSeq(s, 1, mid), SubSeq(s, mid + 1, Len(s))>>

\* Mutant of rotate_left: the span is rotated the other way.
rotate_left_wrong_way(s, mid) ==
    SubSeq(s, Len(s) - mid + 1, Len(s)) \o SubSeq(s, 1, Len(s) - mid)

\* s.rotate_left(mid): the first mid elements go to the end; asserts mid <= len.
rotate_left(s, mid) == SubSeq(s, mid + 1, Len(s)) \o SubSeq(s, 1, mid)

\* Mutant of rotate_right: the span is rotated the other way.
rotate_right_wrong_way(s, k) == SubSeq(s, k + 1, Len(s)) \o SubSeq(s, 1, k)

\* s.rotate_right(k): the last k elements go to the front; asserts k <= len.
rotate_right(s, k) == SubSeq(s, Len(s) - k + 1, Len(s)) \o SubSeq(s, 1, Len(s) - k)

----------------------------------------------------------------------------
(* try_moveslice *)

\* Mutant of try_moveslice_chunk: the end bound is looked at before the start bound.
try_moveslice_chunk_end_first(s, bnds, checks) ==
    LET startbound == bnds[1]
        endbound == bnds[2]
    IN  IF endbound.kind = "Unbounded"
        THEN [done |-> TRUE, chunk |-> <<0, 0>>, result |-> Err(s, EndboundMessage)]
        ELSE IF startbound.kind # "Included"
        THEN [done |-> TRUE, chunk |-> <<0, 0>>, result |-> Err(s, StartboundMessage)]
        ELSE IF endbound.kind = "Excluded"
        THEN [done |-> FALSE, chunk |-> <<startbound.val, endbound.val>>, result |-> Ok(s)]
        ELSE IF checks /\ Overflows(endbound.val + 1)
        THEN [done |-> TRUE, chunk |-> <<0, 0>>, result |-> Panic(s, AddOverflow)]
        ELSE [done |-> FALSE, chunk |-> <<startbound.val, Wrap(endbound.val + 1)>>,
              result |-> Ok(s)]

\* let chunk = ... : the bounds normalised to the half-open chunk <<x, y>>, or
\* the Err the method returns at once.  done = TRUE: the method has ended.
try_moveslice_chunk(s, bnds, checks) ==
    LET startbound == bnds[1]
        endbound == bnds[2]
    IN  IF startbound.kind = "Included"
        THEN IF endbound.kind = "Excluded"
             THEN [done |-> FALSE, chunk |-> <<startbound.val, endbound.val>>,
                   result |-> Ok(s)]
             ELSE IF endbound.kind = "Included"
             THEN IF checks /\ Overflows(endbound.val + 1)
                  THEN [done |-> TRUE, chunk |-> <<0, 0>>, result |-> Panic(s, AddOverflow)]
                  ELSE [done |-> FALSE,
                        chunk |-> <<startbound.val, Wrap(endbound.val + 1)>>,
                        result |-> Ok(s)]
             ELSE [done |-> TRUE, chunk |-> <<0, 0>>, result |-> Err(s, EndboundMessage)]
        ELSE [done |-> TRUE, chunk |-> <<0, 0>>, result |-> Err(s, StartboundMessage)]

\* The branch `if destination > chunk.0`.
try_moveslice_right(s, chunk, dest, checks) ==
    IF checks /\ Overflows(chunk[2] - chunk[1]) THEN Panic(s, SubOverflow) ELSE
    LET chunksize == Wrap(chunk[2] - chunk[1])
        index1 == chunk[1]
    IN  IF checks /\ Overflows(dest + chunksize) THEN Panic(s, AddOverflow) ELSE
        LET end == Wrap(dest + chunksize)
        IN  IF checks /\ Overflows(end - index1) THEN Panic(s, SubOverflow) ELSE
            LET index2 == Wrap(end - index1)
            IN  IF index1 > Len(s) THEN Panic(s, SplitFault) ELSE
                LET head == split_at_mut(s, index1)[1]
                    mid == split_at_mut(s, index1)[2]
                IN  IF end <= Len(mid)
                    THEN IF index2 > Len(mid) THEN Panic(s, SplitFault) ELSE
                         LET span == split_at_mut(mid, index2)[1]
                             tail == split_at_mut(mid, index2)[2]
                         IN  IF chunksize > Len(span) THEN Panic(s, RotateLeftFault)
                             ELSE Ok(head \o rotate_left(span, chunksize) \o tail)
                    ELSE Err(s, BeyondMessage(Len(mid), dest, end))

\* Mutant of try_moveslice_left: the second split is clamped to the view's
\* length instead of left to panic.
try_moveslice_left_clamped(s, chunk, dest, checks) ==
    LET index1 == dest
    IN  IF checks /\ Overflows(chunk[2] - dest) THEN Panic(s, SubOverflow) ELSE
        LET index2 == Wrap(chunk[2] - dest)
        IN  IF index1 > Len(s) THEN Panic(s, SplitFault) ELSE
            LET head == split_at_mut(s, index1)[1]
                mid == split_at_mut(s, index1)[2]
                at == IF index2 > Len(mid) THEN Len(mid) ELSE index2
                span == split_at_mut(mid, at)[1]
                tail == split_at_mut(mid, at)[2]
            IN  IF checks /\ Overflows(chunk[2] - chunk[1])
                THEN Panic(s, SubOverflow) ELSE
                LET k == Wrap(chunk[2] - chunk[1])
                IN  IF k > Len(span) THEN Panic(s, RotateRightFault)
                    ELSE Ok(head \o rotate_right(span, k) \o tail)

\* The branch `else if destination < chunk.0`.
try_moveslice_left(s, chunk, dest, checks) ==
    LET index1 == dest
    IN  IF checks /\ Overflows(chunk[2] - dest) THEN Panic(s, SubOverflow) ELSE
        LET index2 == Wrap(chunk[2] - dest)
        IN  IF index1 > Len(s) THEN Panic(s, SplitFault) ELSE
            LET head == split_at_mut(s, index1)[1]
                mid == split_at_mut(s, index1)[2]
            IN  IF index2 > Len(mid) THEN Panic(s, SplitFault) ELSE
                LET span == split_at_mut(mid, index2)[1]
                    tail == split_at_mut(mid, index2)[2]
                IN  IF checks /\ Overflows(chunk[2] - chunk[1])
                    THEN Panic(s, SubOverflow) ELSE
                    LET k == Wrap(chunk[2] - chunk[1])
                    IN  IF k > Len(span) THEN Panic(s, RotateRightFault)
                        ELSE Ok(head \o rotate_right(span, k) \o tail)

\* Mutant of try_moveslice: the first branch is taken for destination >= chunk.0.
try_moveslice_ge(s, bnds, dest, checks) ==
    LET c == try_moveslice_chunk(s, bnds, checks)
    IN  IF c.done THEN c.result
        ELSE IF dest >= c.chunk[1] THEN try_moveslice_right(s, c.chunk, dest, checks)
        ELSE IF dest < c.chunk[1] THEN try_moveslice_left(s, c.chunk, dest, checks)
        ELSE Ok(s)

try_moveslice(s, bnds, dest, checks) ==
    LET c == try_moveslice_chunk(s, bnds, checks)
    IN  IF c.done THEN c.result
        ELSE IF dest > c.chunk[1] THEN try_moveslice_right(s, c.chunk, dest, checks)
        ELSE IF dest < c.chunk[1] THEN try_moveslice_left(s, c.chunk, dest, checks)
        ELSE Ok(s)

----------------------------------------------------------------------------
(* moveslice *)

\* Mutant of moveslice_chunk: an Included end bound is taken as it is, without
\* the + 1 that makes it exclusive.
moveslice_chunk_no_plus_one(s, bnds, checks) ==
    LET startbound == bnds[1]
        endbound == bnds[2]
    IN  IF startbound.kind = "Included"
        THEN IF endbound.kind \in {"Excluded", "Included"}
             THEN [done |-> FALSE, chunk |-> <<startbound.val, endbound.val>>,
                   result |-> Ok(s)]
             ELSE [done |-> TRUE, chunk |-> <<0, 0>>, result |-> Panic(s, EndboundMessage)]
        ELSE [done |-> TRUE, chunk |-> <<0, 0>>, result |-> Panic(s, StartboundMessage)]

\* let chunk = ... : as in try_moveslice, with a panic! where that returns Err.
moveslice_chunk(s, bnds, checks) ==
    LET startbound == bnds[1]
        endbound == bnds[2]
    IN  IF startbound.kind = "Included"
        THEN IF endbound.kind = "Excluded"
             THEN [done |-> FALSE, chunk |-> <<startbound.val, endbound.val>>,
                   result |-> Ok(s)]
             ELSE IF endbound.kind = "Included"
             THEN IF checks /\ Overflows(endbound.val + 1)
                  THEN [done |-> TRUE, chunk |-> <<0, 0>>, result |-> Panic(s, AddOverflow)]
                  ELSE [done |-> FALSE,
                        chunk |-> <<startbound.val, Wrap(endbound.val + 1)>>,
                        result |-> Ok(s)]
             ELSE [done |-> TRUE, chunk |-> <<0, 0>>, result |-> Panic(s, EndboundMessage)]
        ELSE [done |-> TRUE, chunk |-> <<0, 0>>, result |-> Panic(s, StartboundMessage)]

\* The branch `if destination > chunk.0`.
moveslice_right(s, chunk, dest, checks) ==
    IF checks /\ Overflows(chunk[2] - chunk[1]) THEN Panic(s, SubOverflow) ELSE
    LET chunksize == Wrap(chunk[2] - chunk[1])
        index1 == chunk[1]
    IN  IF checks /\ Overflows(dest + chunksize) THEN Panic(s, AddOverflow) ELSE
        LET end == Wrap(dest + chunksize)
        IN  IF checks /\ Overflows(end - index1) THEN Panic(s, SubOverflow) ELSE
            LET index2 == Wrap(end - index1)
            IN  IF index1 > Len(s) THEN Panic(s, SplitFault) ELSE
                LET head == split_at_mut(s, index1)[1]
                    mid == split_at_mut(s, index1)[2]
                IN  IF end <= Len(mid)
                    THEN IF index2 > Len(mid) THEN Panic(s, SplitFault) ELSE
                         LET span == split_at_mut(mid, index2)[1]
                             tail == split_at_mut(mid, index2)[2]
                         IN  IF chunksize > Len(span) THEN Panic(s, RotateLeftFault)
                             ELSE Ok(head \o rotate_left(span, chunksize) \o tail)
                    ELSE Panic(s, BeyondMessage(Len(mid), dest, end))

\* The branch `else if destination < chunk.0`.
moveslice_left(s, chunk, dest, checks) ==
    LET index1 == dest
    IN  IF checks /\ Overflows(chunk[2] - dest) THEN Panic(s, SubOverflow) ELSE
        LET index2 == Wrap(chunk[2] - dest)
        IN  IF index1 > Len(s) THEN Panic(s, SplitFault) ELSE
            LET head == split_at_mut(s, index1)[1]
                mid == split_at_mut(s, index1)[2]
            IN  IF index2 > Len(mid) THEN Panic(s, SplitFault) ELSE
                LET span == split_at_mut(mid, index2)[1]
                    tail == split_at_mut(mid, index2)[2]
                IN  IF checks /\ Overflows(chunk[2] - chunk[1])
                    THEN Panic(s, SubOverflow) ELSE
                    LET k == Wrap(chunk[2] - chunk[1])
                    IN  IF k > Len(span) THEN Panic(s, RotateRightFault)
                        ELSE Ok(head \o rotate_right(span, k) \o tail)

moveslice(s, bnds, dest, checks) ==
    LET c == moveslice_chunk(s, bnds, checks)
    IN  IF c.done THEN c.result
        ELSE IF dest > c.chunk[1] THEN moveslice_right(s, c.chunk, dest, checks)
        ELSE IF dest < c.chunk[1] THEN moveslice_left(s, c.chunk, dest, checks)
        ELSE Ok(s)

----------------------------------------------------------------------------
(* The caller *)

\* The buffers a caller starts from: [1, 2, ..., n].  The crate never looks at
\* an element (T has no bound but 'static), so each element stands for the
\* index it started at.
\* The array of the crate's example after its first move is the other start.
DocArr == <<1, 4, 5, 6, 2, 3, 7, 8, 9>>

InitSlices == {[i \in 1 .. n |-> i] : n \in 0 .. MaxLen} \cup {DocArr}

NoCall == [bounds |-> <<Unbounded, Unbounded>>, destination |-> 0, outcome |-> "none"]

Init ==
    /\ slice \in InitSlices
    /\ old = slice
    /\ orig = slice
    /\ bounds = <<Unbounded, Unbounded>>
    /\ destination = 0
    /\ called = "none"
    /\ outcome = "none"
    /\ msg = NoMessage
    /\ first = NoCall
    /\ calls = 0
    /\ overflow_checks \in BOOLEAN

\* One call of `method` with arguments bnds and dest, ending in result r.
Return(method, bnds, dest, r) ==
    /\ slice' = r.slice
    /\ old' = slice
    /\ orig' = IF calls = 0 THEN slice ELSE orig
    /\ bounds' = bnds
    /\ destination' = dest
    /\ called' = method
    /\ outcome' = r.outcome
    /\ msg' = r.msg
    /\ first' = IF calls = 0
                THEN [bounds |-> bnds, destination |-> dest, outcome |-> r.outcome]
                ELSE first
    /\ calls' = calls + 1
    /\ UNCHANGED overflow_checks

\* slice.moveslice(bounds, destination) with any arguments.
Call_moveslice ==
    /\ calls = 0
    /\ \E sb \in Bound, eb \in Bound, dest \in Usize :
          Return("moveslice", <<sb, eb>>, dest,
                 moveslice(slice, <<sb, eb>>, dest, overflow_checks))

\* slice.try_moveslice(bounds, destination) with any arguments.
Call_try_moveslice ==
    /\ calls = 0
    /\ \E sb \in Bound, eb \in Bound, dest \in Usize :
          Return("try_moveslice", <<sb, eb>>, dest,
                 try_moveslice(slice, <<sb, eb>>, dest, overflow_checks))

\* The first call was a..a+k to b with both placements inside the buffer.
FirstLeg ==
    /\ calls >= 1
    /\ first.bounds[1].kind = "Included"
    /\ first.bounds[2].kind = "Excluded"
    /\ first.bounds[1].val <= first.bounds[2].val
    /\ first.bounds[2].val <= Len(orig)
    /\ first.destination + (first.bounds[2].val - first.bounds[1].val) <= Len(orig)

\* After a first call a..a+k to b that did not unwind, the caller moves the
\* chunk back: b..b+k to a.
MoveBack_moveslice ==
    /\ calls = 1
    /\ FirstLeg
    /\ outcome # "Panic"
    /\ LET a == first.bounds[1].val
           k == first.bounds[2].val - first.bounds[1].val
           b == first.destination
           back == <<Included(b), Excluded(b + k)>>
       IN  Return("moveslice", back, a, moveslice(slice, back, a, overflow_checks))

MoveBack_try_moveslice ==
    /\ calls = 1
    /\ FirstLeg
    /\ outcome # "Panic"
    /\ LET a == first.bounds[1].val
           k == first.bounds[2].val - first.bounds[1].val
           b == first.destination
           back == <<Included(b), Excluded(b + k)>>
       IN  Return("try_moveslice", back, a,
                  try_moveslice(slice, back, a, overflow_checks))

Next ==
    \/ Call_moveslice
    \/ Call_try_moveslice
    \/ MoveBack_moveslice
    \/ MoveBack_try_moveslice

Spec == Init /\ [][Next]_vars

----------------------------------------------------------------------------
(* What the properties speak of, read off the arguments of the last call. *)

Made == called # "none"

\* The bounds denote a half-open chunk [c0, c1) of usize indices.
HasChunk ==
    /\ bounds[1].kind = "Included"
    /\ \/ bounds[2].kind = "Excluded"
       \/ bounds[2].kind = "Included" /\ bounds[2].val + 1 <= UsizeMax

c0 == bounds[1].val
c1 == IF bounds[2].kind = "Included" THEN bounds[2].val + 1 ELSE bounds[2].val
n == Len(old)

WellFormed == HasChunk /\ c0 <= c1 /\ c1 <= n
IllFormed == HasChunk /\ (c1 > n \/ c0 > c1)

Count(s, v) == Cardinality({i \in 1 .. Len(s) : s[i] = v})
Permutation(s, t) ==
    /\ Len(s) = Len(t)
    /\ \A i \in 1 .. Len(t) : Count(s, t[i]) = Count(t, t[i])

----------------------------------------------------------------------------
\* C1: after a successful move of a well-formed chunk [c0, c1), the elements
\* that were at [c0, c1) are at [destination, destination + chunksize), in
\* their original order; destination is an index of the buffer before the call.
ChunkContiguity ==
    (Made /\ WellFormed /\ outcome = "Ok") =>
        /\ Len(slice) = n
        /\ destination + (c1 - c0) <= n
        /\ \A i \in 1 .. (c1 - c0) : slice[destination + i] = old[c0 + i]

\* A rightward move of two or more elements, from a chunk not at the front, succeeded.
ChunkContiguityWitness ==
    /\ Made /\ WellFormed /\ outcome = "Ok"
    /\ c0 >= 1 /\ c1 - c0 >= 2 /\ destination > c0
    /\ slice # old

\* C2: every destination in 0 .. n - chunksize is accepted for a well-formed chunk.
ValidDestinationAccepted ==
    (Made /\ WellFormed /\ destination + (c1 - c0) <= n) => outcome = "Ok"

\* The second move of the crate's example: 3..6 to 6 on [1,4,5,6,2,3,7,8,9].
DocSecondMove ==
    (Made /\ old = DocArr /\ bounds = <<Included(3), Excluded(6)>> /\ destination = 6) =>
        /\ outcome = "Ok"
        /\ slice = <<1, 4, 5, 7, 8, 9, 6, 2, 3>>

\* C3: after a successful move of a well-formed chunk, the elements outside
\* the affected span keep their index, the other elements inside the span
\* move by exactly chunksize, and the buffer is a permutation of what it was.
FrameEffect ==
    (Made /\ WellFormed /\ outcome = "Ok") =>
        LET k == c1 - c0
            d == destination
        IN  /\ Permutation(slice, old)
            /\ d > c0 =>
                  /\ \A i \in 1 .. n : (i <= c0 \/ i > d + k) => slice[i] = old[i]
                  /\ \A i \in 1 .. n : (i > c1 /\ i <= d + k) => slice[i - k] = old[i]
            /\ d < c0 =>
                  /\ \A i \in 1 .. n : (i <= d \/ i > c1) => slice[i] = old[i]
                  /\ \A i \in 1 .. n : (i > d /\ i <= c0) => slice[i + k] = old[i]
            /\ d = c0 => slice = old

\* A leftward move succeeded, with elements on both sides of the span.
FrameEffectWitness ==
    /\ Made /\ WellFormed /\ outcome = "Ok"
    /\ destination >= 1 /\ destination + 2 <= c0 /\ c1 - c0 >= 2 /\ c1 < n
    /\ slice # old

\* C4: a well-formed chunk with destination + chunksize > n makes
\* try_moveslice return an error and moveslice panic, the buffer unchanged.
BoundaryRejection ==
    (Made /\ WellFormed /\ destination + (c1 - c0) > n) =>
        /\ called = "try_moveslice" => outcome = "Err"
        /\ called = "moveslice" => outcome = "Panic"
        /\ slice = old

\* What the code does there: the rejection is an Err of try_moveslice unless
\* destination + chunksize does not fit in usize, and the buffer is unchanged.
BoundaryRejectionNoOverflow ==
    (Made /\ WellFormed /\ destination + (c1 - c0) > n) =>
        /\ slice = old
        /\ outcome = (IF called = "try_moveslice" /\ destination + (c1 - c0) <= UsizeMax
                      THEN "Err" ELSE "Panic")

\* C5: with destination equal to the chunk's start the call succeeds and
\* leaves every element where it was, whatever the chunk.
NoOpIdentity ==
    (Made /\ HasChunk /\ destination = c0) => (outcome = "Ok" /\ slice = old)

\* Such a call was made on a chunk of several elements inside the buffer.
NoOpIdentityWitness ==
    /\ Made /\ WellFormed /\ destination = c0
    /\ c0 >= 1 /\ c1 - c0 >= 2
    /\ outcome = "Ok"

\* C6: moving [A, A+k) to B and then [B, B+k) to A, with A and B in
\* 0 .. n-k, succeeds both times and restores the buffer.
RoundTrip ==
    FirstLeg =>
        /\ first.outcome = "Ok"
        /\ calls = 2 => (outcome = "Ok" /\ slice = orig)

\* C7: a start bound that is not Included gives the start-bound error, an
\* Included start with an Unbounded end the end-bound error; nothing is
\* moved; moveslice panics with the same message on the same bounds, and
\* these messages arise on no other bounds.
MissingBoundRejection ==
    Made =>
        LET failed == IF called = "try_moveslice" THEN "Err" ELSE "Panic"
            nostart == bounds[1].kind # "Included"
            noend == bounds[1].kind = "Included" /\ bounds[2].kind = "Unbounded"
        IN  /\ nostart => (outcome = failed /\ msg = StartboundMessage /\ slice = old)
            /\ noend => (outcome = failed /\ msg = EndboundMessage /\ slice = old)
            /\ msg = StartboundMessage => nostart
            /\ msg = EndboundMessage => noend

\* try_moveslice was given bounds lacking both and reported the start bound.
MissingBoundRejectionWitness ==
    /\ called = "try_moveslice"
    /\ bounds[1].kind = "Excluded" /\ bounds[2].kind = "Unbounded"
    /\ outcome = "Err" /\ msg = StartboundMessage
    /\ Len(old) >= 2

\* C8: on the same buffer and arguments moveslice panics exactly when
\* try_moveslice returns an error or panics, and when try_moveslice succeeds
\* moveslice does too, with the same resulting buffer.
VariantsAgree ==
    /\ called = "moveslice" =>
          LET t == try_moveslice(old, bounds, destination, overflow_checks)
          IN  /\ (outcome = "Panic") <=> (t.outcome \in {"Err", "Panic"})
              /\ t.outcome = "Ok" => (outcome = "Ok" /\ slice = t.slice)
    /\ called = "try_moveslice" =>
          LET m == moveslice(old, bounds, destination, overflow_checks)
          IN  /\ (m.outcome = "Panic") <=> (outcome \in {"Err", "Panic"})
              /\ outcome = "Ok" => (m.outcome = "Ok" /\ m.slice = slice)

\* moveslice panicked with the out-of-bounds message where try_moveslice returns it.
VariantsAgreeWitness ==
    /\ called = "moveslice" /\ outcome = "Panic" /\ msg.text = BeyondText
    /\ try_moveslice(old, bounds, destination, overflow_checks).outcome = "Err"

\* C9: the out-of-bounds message reports the length of the whole buffer and
\* the attempted placement destination .. destination + chunksize.
BeyondReportsLen ==
    (Made /\ WellFormed /\ destination + (c1 - c0) <= UsizeMax /\ msg.text = BeyondText) =>
        /\ msg.len = n
        /\ msg.destination = destination
        /\ msg.end = destination + (c1 - c0)

\* What the code reports: the length of the buffer from the chunk's start on.
BeyondReportsTailLen ==
    (Made /\ WellFormed /\ destination + (c1 - c0) <= UsizeMax /\ msg.text = BeyondText) =>
        /\ msg.len = n - c0
        /\ msg.destination = destination
        /\ msg.end = destination + (c1 - c0)

\* C10: a chunk with c1 > n or c0 > c1 never causes a mutation; the call
\* succeeds only when destination = c0, and with destination < c0
\* try_moveslice ends in a panic of the language or of std, not in an Err.
IllFormedNeverMutates ==
    (Made /\ IllFormed) =>
        /\ slice = old
        /\ outcome = "Ok" => destination = c0
        /\ (called = "try_moveslice" /\ destination < c0) =>
              (outcome = "Panic" /\ msg \in GenericFaults)

\* try_moveslice was asked to move a chunk reaching past the end leftward.
IllFormedNeverMutatesWitness ==
    /\ called = "try_moveslice" /\ IllFormed
    /\ c0 <= c1 /\ c0 < n /\ c1 > n /\ destination < c0
    /\ outcome = "Panic"

====
